---- MODULE Spec2Model ----
(***************************************************************************)
(* Volume Profile Breakout strategy (anandarajRepo/FyersVPB).              *)
(*                                                                         *)
(* The model covers the volume profile calculator                          *)
(* (services/volume_profile_service.py), the position and trade records    *)
(* (models/trading_models.py) and the strategy                             *)
(* (strategy/volume_profile_strategy.py).                                  *)
(*                                                                         *)
(* Numbers.  Python floats are modelled as exact rationals.  Every         *)
(* price-valued field (poc, vah, val, bucket prices, entry, stops, target) *)
(* is stored multiplied by Scale, so that bucket boundaries                *)
(* (price_min + i * range / num_price_levels) and trailing stops           *)
(* (extreme * (1 -+ trailing_stop_pct / 100)) are integers.  A last traded *)
(* price ltp is a whole number of price units and compares as ltp * Scale. *)
(* Percentages are compared by cross-multiplication.                       *)
(*                                                                         *)
(* Calls.  A call between the strategy and the calculator or the record    *)
(* constructors is modelled by the data the callee uses; the argument      *)
(* lists of the caller and the parameter lists of the callee are not       *)
(* compared (several of them disagree in the source, e.g. add_tick_data,   *)
(* calculate_daily_volume_profile, is_near_volume_node and the keyword     *)
(* arguments of create_position_from_signal).                              *)
(***************************************************************************)
EXTENDS Integers, Sequences, FiniteSets, TLC

(* ------------------------------------------------------------------ *)
(* Configuration and program constants                                 *)
(* ------------------------------------------------------------------ *)

\* VolumeProfileCalculator.num_price_levels (strategy_config.price_buckets)
NumPriceLevels == 5
\* VolumeProfileCalculator.value_area_pct, in percent
ValueAreaPct == 70
\* minimum number of ticks of a profile window
MinTicks == 10
\* trailing_stop_pct / 100 = TrailNum / TrailDen (0.5 percent)
TrailNum == 1
TrailDen == 200
\* all price-valued fields are stored multiplied by Scale
Scale == NumPriceLevels * TrailDen

\* absent value of an Optional or of a dict lookup
None == [none |-> TRUE]
\* absent value of an Optional[datetime]
NoTime == -1
\* start of the trading day (today 09:15) on the model's clock
SessionStart == 1

Abs(x) == IF x < 0 THEN -x ELSE x
Min(a, b) == IF a < b THEN a ELSE b
Max(a, b) == IF a > b THEN a ELSE b

RECURSIVE SumSeq(_)
SumSeq(s) == IF s = <<>> THEN 0 ELSE Head(s) + SumSeq(Tail(s))

(* ------------------------------------------------------------------ *)
(* VolumeProfileCalculator.calculate_volume_profile                    *)
(* ------------------------------------------------------------------ *)

\* the ticks of the window: start_time / end_time are a time or NoTime
FilterTicks(ticks, start_time, end_time) ==
    SelectSeq(ticks, LAMBDA t :
        /\ ~(start_time # NoTime /\ t.timestamp < start_time)
        /\ ~(end_time # NoTime /\ t.timestamp > end_time))

MinPrice(ticks) == CHOOSE p \in {ticks[i].ltp : i \in DOMAIN ticks} :
                     \A i \in DOMAIN ticks : p <= ticks[i].ltp
MaxPrice(ticks) == CHOOSE p \in {ticks[i].ltp : i \in DOMAIN ticks} :
                     \A i \in DOMAIN ticks : p >= ticks[i].ltp

\* bucket_idx without the clamp to the last bucket
BucketIdx_NoClamp(price, price_min, price_range) ==
    ((price - price_min) * NumPriceLevels) \div price_range

\* bucket_idx = min(int((price - price_min) / bucket_size), num_price_levels - 1)
\* with bucket_size = price_range / num_price_levels
BucketIdx(price, price_min, price_range) ==
    Min(((price - price_min) * NumPriceLevels) \div price_range, NumPriceLevels - 1)

\* price_levels[i] = price_min + i * bucket_size, times Scale
PriceLevel(i, price_min, price_range) ==
    (price_min * NumPriceLevels + i * price_range) * TrailDen

\* dict[key] += volume on an insertion-ordered dict, a sequence of
\* [price, volume] entries in the order of first insertion
DictAdd(d, key, volume) ==
    IF \E i \in DOMAIN d : d[i].price = key
    THEN [i \in DOMAIN d |->
            IF d[i].price = key
            THEN [price |-> key, volume |-> d[i].volume + volume]
            ELSE d[i]]
    ELSE Append(d, [price |-> key, volume |-> volume])

\* the loop over zip(prices, volumes)
RECURSIVE AccumulateVolume(_, _, _, _)
AccumulateVolume(ticks, price_min, price_range, d) ==
    IF ticks = <<>> THEN d
    ELSE LET t == Head(ticks)
             bucket_price == PriceLevel(BucketIdx(t.ltp, price_min, price_range),
                                        price_min, price_range)
         IN AccumulateVolume(Tail(ticks), price_min, price_range,
                             DictAdd(d, bucket_price, t.volume))

VolumeAt(d, price) == (CHOOSE i \in DOMAIN d : d[i].price = price) \* index
VolumeOf(d, price) == d[VolumeAt(d, price)].volume

\* the first bucket in insertion order taken as the POC
FindPoc_FirstBucket(d) == d[1].price

\* max(volume_by_price.items(), key=lambda x: x[1])[0]: the first entry, in
\* insertion order, whose volume is the maximum
FindPoc(d) ==
    LET i == CHOOSE i \in DOMAIN d :
                /\ \A j \in DOMAIN d : d[j].volume <= d[i].volume
                /\ \A j \in 1..(i - 1) : d[j].volume < d[i].volume
    IN d[i].price

\* sorted(volume_by_price.keys())
RECURSIVE SortedSet(_)
SortedSet(S) ==
    IF S = {} THEN <<>>
    ELSE LET m == CHOOSE x \in S : \A y \in S : x <= y
         IN <<m>> \o SortedSet(S \ {m})

SortedPrices(d) == SortedSet({d[i].price : i \in DOMAIN d})

\* the while loop with a downward step that does not add the bucket's volume
RECURSIVE ExpandValueArea_NoAdd(_, _, _, _, _, _)
ExpandValueArea_NoAdd(d, sorted_prices, upper_idx, lower_idx, accumulated_volume, total_volume) ==
    IF ~(accumulated_volume * 100 < total_volume * ValueAreaPct)
    THEN <<upper_idx, lower_idx, accumulated_volume>>
    ELSE LET upper_volume == IF upper_idx < Len(sorted_prices)
                             THEN VolumeOf(d, sorted_prices[upper_idx + 1]) ELSE 0
             lower_volume == IF lower_idx > 1
                             THEN VolumeOf(d, sorted_prices[lower_idx - 1]) ELSE 0
         IN IF upper_volume >= lower_volume /\ upper_idx < Len(sorted_prices)
            THEN ExpandValueArea_NoAdd(d, sorted_prices, upper_idx + 1, lower_idx,
                     accumulated_volume + VolumeOf(d, sorted_prices[upper_idx + 1]),
                     total_volume)
            ELSE IF lower_idx > 1
            THEN <<upper_idx, lower_idx - 1, accumulated_volume>>
            ELSE <<upper_idx, lower_idx, accumulated_volume>>

\* the while loop expanding downwards when the two neighbours hold equal volume
RECURSIVE ExpandValueArea_TieDown(_, _, _, _, _, _)
ExpandValueArea_TieDown(d, sorted_prices, upper_idx, lower_idx, accumulated_volume, total_volume) ==
    IF ~(accumulated_volume * 100 < total_volume * ValueAreaPct)
    THEN <<upper_idx, lower_idx, accumulated_volume>>
    ELSE LET upper_volume == IF upper_idx < Len(sorted_prices)
                             THEN VolumeOf(d, sorted_prices[upper_idx + 1]) ELSE 0
             lower_volume == IF lower_idx > 1
                             THEN VolumeOf(d, sorted_prices[lower_idx - 1]) ELSE 0
         IN IF upper_volume > lower_volume /\ upper_idx < Len(sorted_prices)
            THEN ExpandValueArea_TieDown(d, sorted_prices, upper_idx + 1, lower_idx,
                     accumulated_volume + VolumeOf(d, sorted_prices[upper_idx + 1]),
                     total_volume)
            ELSE IF lower_idx > 1
            THEN ExpandValueArea_TieDown(d, sorted_prices, upper_idx, lower_idx - 1,
                     accumulated_volume + VolumeOf(d, sorted_prices[lower_idx - 1]),
                     total_volume)
            ELSE IF upper_idx < Len(sorted_prices)
            THEN ExpandValueArea_TieDown(d, sorted_prices, upper_idx + 1, lower_idx,
                     accumulated_volume + VolumeOf(d, sorted_prices[upper_idx + 1]),
                     total_volume)
            ELSE <<upper_idx, lower_idx, accumulated_volume>>

\* the while loop of _calculate_value_area; the result is
\* <<upper_idx, lower_idx, accumulated_volume>>
RECURSIVE ExpandValueArea(_, _, _, _, _, _)
ExpandValueArea(d, sorted_prices, upper_idx, lower_idx, accumulated_volume, total_volume) ==
    IF ~(accumulated_volume * 100 < total_volume * ValueAreaPct)
    THEN <<upper_idx, lower_idx, accumulated_volume>>
    ELSE LET upper_volume == IF upper_idx < Len(sorted_prices)
                             THEN VolumeOf(d, sorted_prices[upper_idx + 1]) ELSE 0
             lower_volume == IF lower_idx > 1
                             THEN VolumeOf(d, sorted_prices[lower_idx - 1]) ELSE 0
         IN IF upper_volume >= lower_volume /\ upper_idx < Len(sorted_prices)
            THEN ExpandValueArea(d, sorted_prices, upper_idx + 1, lower_idx,
                     accumulated_volume + VolumeOf(d, sorted_prices[upper_idx + 1]),
                     total_volume)
            ELSE IF lower_idx > 1
            THEN ExpandValueArea(d, sorted_prices, upper_idx, lower_idx - 1,
                     accumulated_volume + VolumeOf(d, sorted_prices[lower_idx - 1]),
                     total_volume)
            ELSE <<upper_idx, lower_idx, accumulated_volume>>

IndexOf(s, x) == CHOOSE i \in DOMAIN s : s[i] = x

\* _calculate_value_area expanding from the lowest bucket instead of the POC
CalculateValueArea_FromLowest(d, poc, total_volume) ==
    CHOOSE va \in
        {CHOOSE x \in
            {[vah |-> sorted_prices[r[1]], val |-> sorted_prices[r[2]],
              value_area_volume |-> r[3]] :
                r \in {ExpandValueArea(d, sorted_prices, 1, 1,
                                       VolumeOf(d, sorted_prices[1]), total_volume)}} : TRUE :
         sorted_prices \in {SortedPrices(d)}} : TRUE

\* _calculate_value_area: [vah, val, value_area_volume]
\* (the sets of one element bind a value that is computed once)
CalculateValueArea(d, poc, total_volume) ==
    CHOOSE va \in
        {CHOOSE x \in
            {[vah |-> sorted_prices[r[1]], val |-> sorted_prices[r[2]],
              value_area_volume |-> r[3]] :
                r \in {ExpandValueArea(d, sorted_prices, IndexOf(sorted_prices, poc),
                                       IndexOf(sorted_prices, poc), VolumeOf(d, poc),
                                       total_volume)}} : TRUE :
         sorted_prices \in {SortedPrices(d)}} : TRUE

\* lvn_levels with the factor of hvn_levels: vol <= 1.5 * avg_volume
LvnLevels_HighFactor(d, total_volume) ==
    {d[i].price : i \in {j \in DOMAIN d : 2 * d[j].volume * Len(d) <= 3 * total_volume}}

\* hvn: vol >= 1.5 * avg_volume, lvn: vol <= 0.5 * avg_volume,
\* with avg_volume = total_volume / len(volume_by_price)
HvnLevels(d, total_volume) ==
    {d[i].price : i \in {j \in DOMAIN d : 2 * d[j].volume * Len(d) >= 3 * total_volume}}
LvnLevels(d, total_volume) ==
    {d[i].price : i \in {j \in DOMAIN d : 2 * d[j].volume * Len(d) <= total_volume}}

\* the VolumeProfileData built from the bucket volumes d
ProfileOf(ticks, price_min, price_max, d) ==
    LET poc == FindPoc(d)
        poc_volume == VolumeOf(d, poc)
        total_volume == SumSeq([i \in DOMAIN d |-> d[i].volume])
        va == CalculateValueArea(d, poc, total_volume)
    IN [poc |-> poc, vah |-> va.vah, val |-> va.val,
        profile_high |-> price_max * Scale,
        profile_low |-> price_min * Scale,
        total_volume |-> total_volume,
        value_area_volume |-> va.value_area_volume,
        volume_by_price |-> d,
        hvn_levels |-> HvnLevels(d, total_volume),
        lvn_levels |-> LvnLevels(d, total_volume),
        \* poc_volume / avg_volume if avg_volume > 0 else 0, as num / den
        poc_strength |-> IF total_volume > 0
                         THEN [num |-> poc_volume * Len(d), den |-> total_volume]
                         ELSE [num |-> 0, den |-> 1],
        profile_width |-> va.vah - va.val,
        \* profile_width / poc * 100 if poc > 0 else 0, as num / den
        profile_width_pct |-> IF poc > 0
                              THEN [num |-> (va.vah - va.val) * 100, den |-> poc]
                              ELSE [num |-> 0, den |-> 1],
        data_start_time |-> ticks[1].timestamp,
        data_end_time |-> ticks[Len(ticks)].timestamp,
        num_ticks |-> Len(ticks)]

\* the profile built from the filtered ticks, or None
BuildProfile(ticks) ==
    IF Len(ticks) < MinTicks THEN None
    ELSE LET price_min == MinPrice(ticks)
             price_max == MaxPrice(ticks)
             price_range == price_max - price_min
         IN IF price_range = 0 THEN None
            ELSE CHOOSE vp_data \in
                    {ProfileOf(ticks, price_min, price_max, d) :
                        d \in {AccumulateVolume(ticks, price_min, price_range, <<>>)}} : TRUE

\* calculate_volume_profile(symbol, start_time, end_time) on the ticks of
\* the symbol: the returned profile or None
CalculateVolumeProfile(ticks, start_time, end_time) ==
    IF ticks = <<>> THEN None
    ELSE BuildProfile(IF start_time # NoTime \/ end_time # NoTime
                      THEN FilterTicks(ticks, start_time, end_time)
                      ELSE ticks)

\* the cache assigned also when the build returned None
CacheProfile_Always(cache, symbol, vp_data) == [cache EXCEPT ![symbol] = vp_data]

\* self.calculated_profiles[symbol] = vp_data, reached only by a build that
\* did not return None before
CacheProfile(cache, symbol, vp_data) ==
    IF vp_data # None THEN [cache EXCEPT ![symbol] = vp_data] ELSE cache

(* ------------------------------------------------------------------ *)
(* Strategy configuration (config/settings.py)                         *)
(* ------------------------------------------------------------------ *)

Symbols == {"A", "B"}

PortfolioValue == 100000
\* risk_per_trade_pct, in percent
RiskPerTradePct == 1
\* min_breakout_distance_pct = MinBreakoutNum / MinBreakoutDen percent (0.3)
MinBreakoutNum == 3
MinBreakoutDen == 10
\* min_volume_ratio, in hundredths (1.5)
MinVolumeRatio == 150
\* min_poc_distance_pct, in percent (1.0)
MinPocDistancePct == 1
\* min_confidence, in hundredths (0.65)
MinConfidence == 65
\* target_multiplier (2.0)
TargetMultiplier == 2
\* max_daily_loss = portfolio_value * 0.02 = portfolio_value / MaxDailyLossDiv
MaxDailyLossDiv == 50
\* volume_ratio = 1.0, the placeholder of _evaluate_breakout_signal, in hundredths
VolumeRatioPlaceholder == 100
\* threshold_pct = 0.5 of the node proximity test: 1 / NodeDistanceDiv percent
NodeDistanceDiv == 2
\* float('inf')
Infinity == 1000000000

(* ------------------------------------------------------------------ *)
(* State                                                               *)
(* ------------------------------------------------------------------ *)

VARIABLES
    tick_data,               \* vp_calculator.tick_data: symbol -> list of ticks
    calculated_profiles,     \* vp_calculator.calculated_profiles
    strategy_config,         \* the configuration switches that vary
    positions,               \* dict symbol -> Position, in insertion order
    completed_trades,        \* list of TradeResult
    signals_generated_today, \* list of executed signals
    volume_profiles,         \* symbol -> VolumeProfileData or None
    vp_calculated,
    daily_pnl,               \* times Scale
    live_quotes,             \* symbol -> latest quote or None
    breakout_detected,       \* dict symbol -> "VAH" / "VAL", in insertion order
    market_state,
    now,                     \* the clock: datetime.now()
    metrics                  \* StrategyMetrics

vars == <<tick_data, calculated_profiles, strategy_config, positions,
          completed_trades, signals_generated_today, volume_profiles,
          vp_calculated, daily_pnl, live_quotes, breakout_detected,
          market_state, now, metrics>>

\* dicts kept as sequences of records with a symbol field
HasKey(d, symbol) == \E i \in DOMAIN d : d[i].symbol = symbol
Get(d, symbol) == d[CHOOSE i \in DOMAIN d : d[i].symbol = symbol]
\* d[symbol] = value: an existing key keeps its place
DictSet(d, value) ==
    IF HasKey(d, value.symbol)
    THEN [i \in DOMAIN d |-> IF d[i].symbol = value.symbol THEN value ELSE d[i]]
    ELSE Append(d, value)
\* del d[symbol]
DictDel(d, symbol) == SelectSeq(d, LAMBDA e : e.symbol # symbol)

(* ------------------------------------------------------------------ *)
(* Position (models/trading_models.py)                                 *)
(* ------------------------------------------------------------------ *)

\* Position.__post_init__ on the record made by create_position_from_signal
PostInitExtremes(signal_type, entry_price) ==
    [highest_price |-> IF signal_type = "LONG" THEN entry_price ELSE 0,
     lowest_price |-> IF signal_type = "SHORT" THEN entry_price ELSE Infinity]

\* create_position_from_signal
CreatePositionFromSignal(signal, quantity) ==
    LET ext == PostInitExtremes(signal.signal_type, signal.entry_price)
    IN [symbol |-> signal.symbol,
        signal_type |-> signal.signal_type,
        entry_price |-> signal.entry_price,
        quantity |-> quantity,
        stop_loss |-> signal.stop_loss,
        target_price |-> signal.target_price,
        vp_poc |-> signal.poc,
        breakout_level |-> signal.breakout_level,
        entry_time |-> signal.timestamp,
        current_price |-> 0,
        highest_price |-> ext.highest_price,
        lowest_price |-> ext.lowest_price,
        current_stop_loss |-> signal.stop_loss,
        unrealized_pnl |-> 0,
        max_favorable_excursion |-> 0,
        max_adverse_excursion |-> 0]

UpdatePriceExtremes_LastExcursion(position, current_price) ==
    IF position.signal_type = "LONG"
    THEN [position EXCEPT
            !.current_price = current_price,
            !.highest_price = Max(position.highest_price, current_price),
            !.max_favorable_excursion = Max(0, current_price - position.entry_price),
            !.max_adverse_excursion = Min(0, current_price - position.entry_price)]
    ELSE [position EXCEPT
            !.current_price = current_price,
            !.lowest_price = Min(position.lowest_price, current_price),
            !.max_favorable_excursion = Max(0, position.entry_price - current_price),
            !.max_adverse_excursion = Min(0, position.entry_price - current_price)]

\* Position.update_price_extremes; current_price is times Scale
UpdatePriceExtremes(position, current_price) ==
    IF position.signal_type = "LONG"
    THEN [position EXCEPT
            !.current_price = current_price,
            !.highest_price = Max(position.highest_price, current_price),
            !.max_favorable_excursion =
                Max(position.max_favorable_excursion, current_price - position.entry_price),
            !.max_adverse_excursion =
                Min(position.max_adverse_excursion, current_price - position.entry_price)]
    ELSE [position EXCEPT
            !.current_price = current_price,
            !.lowest_price = Min(position.lowest_price, current_price),
            !.max_favorable_excursion =
                Max(position.max_favorable_excursion, position.entry_price - current_price),
            !.max_adverse_excursion =
                Min(position.max_adverse_excursion, position.entry_price - current_price)]

\* _update_trailing_stop without the comparison with the current stop
UpdateTrailingStop_NoGuard(position) ==
    IF position.signal_type = "LONG"
    THEN [position EXCEPT !.current_stop_loss =
            (position.highest_price * (TrailDen - TrailNum)) \div TrailDen]
    ELSE [position EXCEPT !.current_stop_loss =
            (position.lowest_price * (TrailDen + TrailNum)) \div TrailDen]

\* _update_trailing_stop: new_stop = extreme * (1 -+ trailing_stop_pct / 100)
UpdateTrailingStop(position) ==
    IF position.signal_type = "LONG"
    THEN LET new_stop == (position.highest_price * (TrailDen - TrailNum)) \div TrailDen
         IN IF new_stop > position.current_stop_loss
            THEN [position EXCEPT !.current_stop_loss = new_stop]
            ELSE position
    ELSE LET new_stop == (position.lowest_price * (TrailDen + TrailNum)) \div TrailDen
         IN IF new_stop < position.current_stop_loss
            THEN [position EXCEPT !.current_stop_loss = new_stop]
            ELSE position

\* _update_position_tracking with the signed quantity in the short branch
UpdatePositionTracking_SignedShort(position, current_price, config) ==
    LET p1 == UpdatePriceExtremes(position, current_price)
        p2 == [p1 EXCEPT !.unrealized_pnl =
                 IF p1.signal_type = "LONG"
                 THEN (current_price - p1.entry_price) * p1.quantity
                 ELSE (p1.entry_price - current_price) * p1.quantity]
    IN IF config.enable_trailing_stops THEN UpdateTrailingStop(p2) ELSE p2

\* _update_position_tracking
UpdatePositionTracking(position, current_price, config) ==
    LET p1 == UpdatePriceExtremes(position, current_price)
        p2 == [p1 EXCEPT !.unrealized_pnl =
                 IF p1.signal_type = "LONG"
                 THEN (current_price - p1.entry_price) * p1.quantity
                 ELSE (p1.entry_price - current_price) * Abs(p1.quantity)]
    IN IF config.enable_trailing_stops THEN UpdateTrailingStop(p2) ELSE p2

\* create_trade_result_from_position, with TradeResult.__post_init__
CreateTradeResultFromPosition(position, exit_price, exit_reason, breakout_type, exit_time) ==
    LET gross_pnl == IF position.signal_type = "LONG"
                     THEN (exit_price - position.entry_price) * position.quantity
                     ELSE (position.entry_price - exit_price) * Abs(position.quantity)
        commission == 0
    IN [symbol |-> position.symbol,
        signal_type |-> position.signal_type,
        entry_price |-> position.entry_price,
        exit_price |-> exit_price,
        quantity |-> position.quantity,
        entry_time |-> position.entry_time,
        exit_time |-> exit_time,
        holding_period |-> exit_time - position.entry_time,
        entry_poc |-> position.vp_poc,
        breakout_level |-> position.breakout_level,
        breakout_type |-> breakout_type,
        exit_reason |-> exit_reason,
        gross_pnl |-> gross_pnl,
        commission |-> commission,
        net_pnl |-> gross_pnl - commission,
        max_favorable_excursion |-> position.max_favorable_excursion,
        max_adverse_excursion |-> position.max_adverse_excursion]

RECURSIVE Gcd(_, _)
Gcd(a, b) == IF b = 0 THEN a ELSE Gcd(b, a % b)

\* a rational number num / den in lowest terms (num >= 0, den > 0), for the
\* rates and averages of StrategyMetrics
Rat(num, den) ==
    LET g == Gcd(num, den) IN [num |-> num \div g, den |-> den \div g]
RatAdd(a, b) == Rat(a.num * b.den + b.num * a.den, a.den * b.den)

\* sum of abs(t.entry_price - t.entry_poc) / t.entry_poc * 100 over trades
RECURSIVE SumPocDistances(_)
SumPocDistances(trades) ==
    IF trades = <<>> THEN Rat(0, 1)
    ELSE RatAdd(Rat(Abs(Head(trades).entry_price - Head(trades).entry_poc) * 100,
                    Head(trades).entry_poc),
                SumPocDistances(Tail(trades)))

\* StrategyMetrics()
DefaultMetrics ==
    [total_trades |-> 0, winning_trades |-> 0, losing_trades |-> 0,
     win_rate |-> Rat(0, 1), total_pnl |-> 0, gross_profit |-> 0, gross_loss |-> 0,
     vah_breakout_trades |-> 0, val_breakout_trades |-> 0,
     vah_win_rate |-> Rat(0, 1), val_win_rate |-> Rat(0, 1),
     avg_poc_distance |-> Rat(0, 1), avg_holding_period |-> Rat(0, 1)]

\* StrategyMetrics.update_metrics(trades) on the metrics object m
UpdateMetrics(m, trades) ==
    IF trades = <<>> THEN m
    ELSE LET \* sum(f(t) for t in ts), f integer-valued
             SumOver(ts, f(_)) == SumSeq([i \in DOMAIN ts |-> f(ts[i])])
             Won(t) == IF t.net_pnl > 0 THEN 1 ELSE 0
             total_trades == Len(trades)
             winning_trades == SumOver(trades, Won)
             vah_trades == SelectSeq(trades, LAMBDA t : t.signal_type = "LONG")
             val_trades == SelectSeq(trades, LAMBDA t : t.signal_type = "SHORT")
             distances == SumPocDistances(trades)
         IN [m EXCEPT
               !.total_trades = total_trades,
               !.winning_trades = winning_trades,
               !.losing_trades = total_trades - winning_trades,
               !.win_rate = Rat(winning_trades * 100, total_trades),
               !.total_pnl = SumOver(trades, LAMBDA t : t.net_pnl),
               !.gross_profit = SumOver(trades, LAMBDA t : IF t.net_pnl > 0 THEN t.net_pnl ELSE 0),
               !.gross_loss = SumOver(trades, LAMBDA t : IF t.net_pnl < 0 THEN t.net_pnl ELSE 0),
               !.vah_breakout_trades = Len(vah_trades),
               !.val_breakout_trades = Len(val_trades),
               !.vah_win_rate = IF Len(vah_trades) > 0
                                THEN Rat(SumOver(vah_trades, Won) * 100, Len(vah_trades))
                                ELSE m.vah_win_rate,
               !.val_win_rate = IF Len(val_trades) > 0
                                THEN Rat(SumOver(val_trades, Won) * 100, Len(val_trades))
                                ELSE m.val_win_rate,
               !.avg_holding_period = Rat(SumOver(trades, LAMBDA t : t.holding_period),
                                          Len(trades)),
               !.avg_poc_distance = Rat(distances.num, distances.den * Len(trades))]

(* ------------------------------------------------------------------ *)
(* Strategy (strategy/volume_profile_strategy.py)                      *)
(* ------------------------------------------------------------------ *)

\* _check_for_breakout without the early return for a symbol already flagged
CheckForBreakout_NoGuard(detected, symbol, vp_data, current_price) ==
    IF current_price > vp_data.vah
    THEN IF (current_price - vp_data.vah) * 100 * MinBreakoutDen >= MinBreakoutNum * vp_data.vah
         THEN DictSet(detected, [symbol |-> symbol, type |-> "VAH"])
         ELSE detected
    ELSE IF current_price < vp_data.val
    THEN IF (vp_data.val - current_price) * 100 * MinBreakoutDen >= MinBreakoutNum * vp_data.val
         THEN DictSet(detected, [symbol |-> symbol, type |-> "VAL"])
         ELSE detected
    ELSE detected

CheckForBreakout_NoDistance(detected, symbol, vp_data, current_price) ==
    IF HasKey(detected, symbol) THEN detected
    ELSE IF current_price > vp_data.vah
    THEN DictSet(detected, [symbol |-> symbol, type |-> "VAH"])
    ELSE IF current_price < vp_data.val
    THEN DictSet(detected, [symbol |-> symbol, type |-> "VAL"])
    ELSE detected

\* _check_for_breakout: the breakout dict after a tick at current_price (times Scale)
CheckForBreakout(detected, symbol, vp_data, current_price) ==
    IF HasKey(detected, symbol) THEN detected
    ELSE IF current_price > vp_data.vah
    THEN IF (current_price - vp_data.vah) * 100 * MinBreakoutDen >= MinBreakoutNum * vp_data.vah
         THEN DictSet(detected, [symbol |-> symbol, type |-> "VAH"])
         ELSE detected
    ELSE IF current_price < vp_data.val
    THEN IF (vp_data.val - current_price) * 100 * MinBreakoutDen >= MinBreakoutNum * vp_data.val
         THEN DictSet(detected, [symbol |-> symbol, type |-> "VAL"])
         ELSE detected
    ELSE detected

\* VolumeProfileData.is_near_lvn / is_near_hvn with distance_pct = 0.5:
\* abs(price - node) / node * 100 <= 0.5
IsNearVolumeNode(price, nodes) ==
    \E node \in nodes : Abs(price - node) * 100 * NodeDistanceDiv <= node

CalculateSignalConfidence_StrictTiers(vp_data, volume_ratio, near_hvn, near_lvn, dist_num, dist_den) ==
    LET volume_part == IF volume_ratio > 200 THEN 30
                       ELSE IF volume_ratio > 150 THEN 20
                       ELSE IF volume_ratio > 100 THEN 10 ELSE 0
        distance_part == IF dist_num * 10 >= 20 * dist_den THEN 25
                         ELSE IF dist_num * 10 >= 15 * dist_den THEN 20
                         ELSE IF dist_num * 10 >= 10 * dist_den THEN 15 ELSE 0
        node_part == IF near_hvn THEN 25 ELSE IF ~near_lvn THEN 15 ELSE 5
        quality_part == IF vp_data.poc_strength.num * 10 >= 20 * vp_data.poc_strength.den THEN 20
                        ELSE IF vp_data.poc_strength.num * 10 >= 15 * vp_data.poc_strength.den THEN 15
                        ELSE 10
    IN Min(volume_part + distance_part + node_part + quality_part, 100)

\* _calculate_signal_confidence, in hundredths
CalculateSignalConfidence(vp_data, volume_ratio, near_hvn, near_lvn, dist_num, dist_den) ==
    LET volume_part == IF volume_ratio >= 200 THEN 30
                       ELSE IF volume_ratio >= 150 THEN 20
                       ELSE IF volume_ratio >= 100 THEN 10 ELSE 0
        \* distance_from_poc_pct = dist_num / dist_den
        distance_part == IF dist_num * 10 >= 20 * dist_den THEN 25
                         ELSE IF dist_num * 10 >= 15 * dist_den THEN 20
                         ELSE IF dist_num * 10 >= 10 * dist_den THEN 15 ELSE 0
        node_part == IF near_hvn THEN 25 ELSE IF ~near_lvn THEN 15 ELSE 5
        quality_part == IF vp_data.poc_strength.num * 10 >= 20 * vp_data.poc_strength.den THEN 20
                        ELSE IF vp_data.poc_strength.num * 10 >= 15 * vp_data.poc_strength.den THEN 15
                        ELSE 10
    IN Min(volume_part + distance_part + node_part + quality_part, 100)

EvaluateBreakoutSignal_NoLvnFilter(symbol, breakout_type, live_quote, vp_data, config, time) ==
    LET current_price == live_quote.ltp * Scale
        signal_type == IF breakout_type = "VAH" THEN "LONG" ELSE "SHORT"
        breakout_level == IF breakout_type = "VAH" THEN vp_data.vah ELSE vp_data.val
        entry_price == current_price
        stop_loss == vp_data.poc
        target_price == IF breakout_type = "VAH"
                        THEN entry_price + (entry_price - stop_loss) * TargetMultiplier
                        ELSE entry_price - (stop_loss - entry_price) * TargetMultiplier
        dist_num == Abs(entry_price - vp_data.poc) * 100
        dist_den == vp_data.poc
        volume_ratio == VolumeRatioPlaceholder
        near_lvn == IsNearVolumeNode(entry_price, vp_data.lvn_levels)
        near_hvn == IsNearVolumeNode(entry_price, vp_data.hvn_levels)
    IN IF dist_num < MinPocDistancePct * dist_den THEN None
       ELSE IF config.require_volume_confirmation /\ volume_ratio < MinVolumeRatio THEN None
       ELSE [symbol |-> symbol,
             signal_type |-> signal_type,
             breakout_level |-> breakout_level,
             breakout_type |-> breakout_type,
             entry_price |-> entry_price,
             stop_loss |-> stop_loss,
             target_price |-> target_price,
             confidence |-> CalculateSignalConfidence(vp_data, volume_ratio, near_hvn,
                                                      near_lvn, dist_num, dist_den),
             volume_ratio |-> volume_ratio,
             near_hvn |-> near_hvn,
             near_lvn |-> near_lvn,
             poc |-> vp_data.poc,
             risk_amount |-> Abs(entry_price - stop_loss),
             reward_amount |-> Abs(target_price - entry_price),
             timestamp |-> time]

\* _evaluate_breakout_signal without the volume confirmation
EvaluateBreakoutSignal_NoVolumeFilter(symbol, breakout_type, live_quote, vp_data, config, time) ==
    LET current_price == live_quote.ltp * Scale
        signal_type == IF breakout_type = "VAH" THEN "LONG" ELSE "SHORT"
        breakout_level == IF breakout_type = "VAH" THEN vp_data.vah ELSE vp_data.val
        entry_price == current_price
        stop_loss == vp_data.poc
        target_price == IF breakout_type = "VAH"
                        THEN entry_price + (entry_price - stop_loss) * TargetMultiplier
                        ELSE entry_price - (stop_loss - entry_price) * TargetMultiplier
        \* distance_from_poc_pct = abs(entry_price - poc) / poc * 100
        dist_num == Abs(entry_price - vp_data.poc) * 100
        dist_den == vp_data.poc
        volume_ratio == VolumeRatioPlaceholder
        near_lvn == IsNearVolumeNode(entry_price, vp_data.lvn_levels)
        near_hvn == IsNearVolumeNode(entry_price, vp_data.hvn_levels)
    IN IF dist_num < MinPocDistancePct * dist_den THEN None
       ELSE IF config.avoid_low_volume_nodes /\ near_lvn THEN None
       ELSE [symbol |-> symbol,
             signal_type |-> signal_type,
             breakout_level |-> breakout_level,
             breakout_type |-> breakout_type,
             entry_price |-> entry_price,
             stop_loss |-> stop_loss,
             target_price |-> target_price,
             confidence |-> CalculateSignalConfidence(vp_data, volume_ratio, near_hvn,
                                                      near_lvn, dist_num, dist_den),
             volume_ratio |-> volume_ratio,
             near_hvn |-> near_hvn,
             near_lvn |-> near_lvn,
             poc |-> vp_data.poc,
             risk_amount |-> Abs(entry_price - stop_loss),
             reward_amount |-> Abs(target_price - entry_price),
             timestamp |-> time]

\* _evaluate_breakout_signal: the signal or None
EvaluateBreakoutSignal(symbol, breakout_type, live_quote, vp_data, config, time) ==
    LET current_price == live_quote.ltp * Scale
        signal_type == IF breakout_type = "VAH" THEN "LONG" ELSE "SHORT"
        breakout_level == IF breakout_type = "VAH" THEN vp_data.vah ELSE vp_data.val
        entry_price == current_price
        stop_loss == vp_data.poc
        target_price == IF breakout_type = "VAH"
                        THEN entry_price + (entry_price - stop_loss) * TargetMultiplier
                        ELSE entry_price - (stop_loss - entry_price) * TargetMultiplier
        \* distance_from_poc_pct = abs(entry_price - poc) / poc * 100
        dist_num == Abs(entry_price - vp_data.poc) * 100
        dist_den == vp_data.poc
        volume_ratio == VolumeRatioPlaceholder
        near_lvn == IsNearVolumeNode(entry_price, vp_data.lvn_levels)
        near_hvn == IsNearVolumeNode(entry_price, vp_data.hvn_levels)
    IN IF dist_num < MinPocDistancePct * dist_den THEN None
       ELSE IF config.require_volume_confirmation /\ volume_ratio < MinVolumeRatio THEN None
       ELSE IF config.avoid_low_volume_nodes /\ near_lvn THEN None
       ELSE [symbol |-> symbol,
             signal_type |-> signal_type,
             breakout_level |-> breakout_level,
             breakout_type |-> breakout_type,
             entry_price |-> entry_price,
             stop_loss |-> stop_loss,
             target_price |-> target_price,
             confidence |-> CalculateSignalConfidence(vp_data, volume_ratio, near_hvn,
                                                      near_lvn, dist_num, dist_den),
             volume_ratio |-> volume_ratio,
             near_hvn |-> near_hvn,
             near_lvn |-> near_lvn,
             poc |-> vp_data.poc,
             risk_amount |-> Abs(entry_price - stop_loss),
             reward_amount |-> Abs(target_price - entry_price),
             timestamp |-> time]

\* quantity = int(risk_amount / price_risk); price_risk is times Scale
PositionSize(price_risk) ==
    ((PortfolioValue * RiskPerTradePct * Scale) \div 100) \div price_risk

ExecuteSignal_NoQuantityCheck(st, signal) ==
    LET price_risk == Abs(signal.entry_price - signal.stop_loss)
    IN IF price_risk <= 0 THEN st
       ELSE LET quantity == PositionSize(price_risk)
            IN [st EXCEPT
                  !.positions = DictSet(st.positions,
                      CreatePositionFromSignal(signal,
                          IF signal.signal_type = "LONG" THEN quantity ELSE -quantity)),
                  !.signals_generated_today = Append(st.signals_generated_today, signal)]

\* _execute_signal on the strategy fields st: the fields after it
ExecuteSignal(st, signal) ==
    LET price_risk == Abs(signal.entry_price - signal.stop_loss)
    IN IF price_risk <= 0 THEN st
       ELSE LET quantity == PositionSize(price_risk)
            IN IF quantity <= 0 THEN st
               ELSE [st EXCEPT
                       !.positions = DictSet(st.positions,
                           CreatePositionFromSignal(signal,
                               IF signal.signal_type = "LONG" THEN quantity ELSE -quantity)),
                       !.signals_generated_today = Append(st.signals_generated_today, signal)]

ShouldExitOnStopLoss(position, current_price) ==
    IF position.signal_type = "LONG"
    THEN current_price <= position.current_stop_loss
    ELSE current_price >= position.current_stop_loss

ShouldExitOnTarget(position, current_price) ==
    IF position.signal_type = "LONG"
    THEN current_price >= position.target_price
    ELSE current_price <= position.target_price

\* the exit reason with the target tested ahead of the stop
ExitReason_TargetFirst(position, quotes) ==
    IF quotes[position.symbol] = None THEN "NONE"
    ELSE LET current_price == quotes[position.symbol].ltp * Scale
         IN IF ShouldExitOnTarget(position, current_price) THEN "TARGET"
            ELSE IF ShouldExitOnStopLoss(position, current_price) THEN "STOP_LOSS"
            ELSE "NONE"

\* the exit reason monitor_positions records for a position, or "NONE"
ExitReason(position, quotes) ==
    IF quotes[position.symbol] = None THEN "NONE"
    ELSE LET current_price == quotes[position.symbol].ltp * Scale
         IN IF ShouldExitOnStopLoss(position, current_price) THEN "STOP_LOSS"
            ELSE IF ShouldExitOnTarget(position, current_price) THEN "TARGET"
            ELSE "NONE"

\* _close_position without the removal of the position
ClosePosition_KeepsPosition(st, symbol, reason, breakout_type, quotes, time) ==
    LET position == Get(st.positions, symbol)
        trade_result == CreateTradeResultFromPosition(
                            position, quotes[symbol].ltp * Scale, reason, breakout_type, time)
    IN [st EXCEPT
          !.completed_trades = Append(st.completed_trades, trade_result),
          !.daily_pnl = st.daily_pnl + trade_result.net_pnl]

ClosePosition_ReplacesHistory(st, symbol, reason, breakout_type, quotes, time) ==
    LET position == Get(st.positions, symbol)
        trade_result == CreateTradeResultFromPosition(
                            position, quotes[symbol].ltp * Scale, reason, breakout_type, time)
    IN [st EXCEPT
          !.completed_trades = <<trade_result>>,
          !.daily_pnl = st.daily_pnl + trade_result.net_pnl,
          !.positions = DictDel(st.positions, symbol)]

\* _close_position setting daily_pnl to the P&L of the closed trade
ClosePosition_LastPnl(st, symbol, reason, breakout_type, quotes, time) ==
    LET position == Get(st.positions, symbol)
        trade_result == CreateTradeResultFromPosition(
                            position, quotes[symbol].ltp * Scale, reason, breakout_type, time)
    IN [st EXCEPT
          !.completed_trades = Append(st.completed_trades, trade_result),
          !.daily_pnl = trade_result.net_pnl,
          !.positions = DictDel(st.positions, symbol)]

\* _close_position on the strategy fields st
ClosePosition(st, symbol, reason, breakout_type, quotes, time) ==
    LET position == Get(st.positions, symbol)
        trade_result == CreateTradeResultFromPosition(
                            position, quotes[symbol].ltp * Scale, reason, breakout_type, time)
    IN [st EXCEPT
          !.completed_trades = Append(st.completed_trades, trade_result),
          !.daily_pnl = st.daily_pnl + trade_result.net_pnl,
          !.positions = DictDel(st.positions, symbol)]

\* the closing loop of monitor_positions over positions_to_close
RECURSIVE ClosePositions(_, _, _, _)
ClosePositions(st, to_close, quotes, time) ==
    IF to_close = <<>> THEN st
    ELSE LET c == Head(to_close)
         IN ClosePositions(ClosePosition(st, c.symbol, c.reason, c.breakout_type, quotes, time),
                           Tail(to_close), quotes, time)

\* monitor_positions
MonitorPositions(st, quotes, time) ==
    LET marked == SelectSeq(st.positions, LAMBDA p : ExitReason(p, quotes) # "NONE")
        to_close == [i \in DOMAIN marked |->
                       [symbol |-> marked[i].symbol,
                        reason |-> ExitReason(marked[i], quotes),
                        breakout_type |-> IF marked[i].signal_type = "LONG"
                                          THEN "VAH_BREAKOUT" ELSE "VAL_BREAKOUT"]]
    IN ClosePositions(st, to_close, quotes, time)

\* new_signals left in evaluation order
SortByConfidence_ArrivalOrder(signals) == signals

\* new_signals.sort(key=lambda x: x.confidence, reverse=True): a stable sort
RECURSIVE SortByConfidence(_)
SortByConfidence(signals) ==
    IF signals = <<>> THEN <<>>
    ELSE LET i == CHOOSE i \in DOMAIN signals :
                    /\ \A j \in DOMAIN signals : signals[j].confidence <= signals[i].confidence
                    /\ \A j \in 1..(i - 1) : signals[j].confidence < signals[i].confidence
         IN <<signals[i]>> \o
            SortByConfidence([k \in 1..(Len(signals) - 1) |->
                                 IF k < i THEN signals[k] ELSE signals[k + 1]])

\* the evaluation loop without the skip of a symbol that has a position
RECURSIVE EvaluateBreakouts_NoSkip(_, _, _, _, _)
EvaluateBreakouts_NoSkip(detected, st, quotes, config, time) ==
    IF detected = <<>> THEN <<>>
    ELSE LET b == Head(detected)
             rest == EvaluateBreakouts_NoSkip(Tail(detected), st, quotes, config, time)
         IN IF quotes[b.symbol] = None \/ st.volume_profiles[b.symbol] = None THEN rest
            ELSE LET signal == EvaluateBreakoutSignal(b.symbol, b.type, quotes[b.symbol],
                                   st.volume_profiles[b.symbol], config, time)
                 IN IF signal = None THEN rest ELSE <<signal>> \o rest

\* the evaluation loop of scan_for_breakout_signals: new_signals
RECURSIVE EvaluateBreakouts(_, _, _, _, _)
EvaluateBreakouts(detected, st, quotes, config, time) ==
    IF detected = <<>> THEN <<>>
    ELSE LET b == Head(detected)
             rest == EvaluateBreakouts(Tail(detected), st, quotes, config, time)
         IN IF HasKey(st.positions, b.symbol) THEN rest
            ELSE IF quotes[b.symbol] = None \/ st.volume_profiles[b.symbol] = None THEN rest
            ELSE LET signal == EvaluateBreakoutSignal(b.symbol, b.type, quotes[b.symbol],
                                   st.volume_profiles[b.symbol], config, time)
                 IN IF signal = None THEN rest ELSE <<signal>> \o rest

\* new_signals without the slice
TopSignals_NoLimit(new_signals, available_slots) == new_signals

\* new_signals[:available_slots]
TopSignals(new_signals, available_slots) ==
    SubSeq(new_signals, 1, Min(Len(new_signals), available_slots))

\* the execution loop of scan_for_breakout_signals
RECURSIVE ExecuteSignals(_, _)
ExecuteSignals(st, signals) ==
    IF signals = <<>> THEN st
    ELSE ExecuteSignals(IF Head(signals).confidence >= MinConfidence
                        THEN ExecuteSignal(st, Head(signals)) ELSE st,
                        Tail(signals))

\* scan_for_breakout_signals
ScanForBreakoutSignals(st, detected, quotes, config, time) ==
    IF detected = <<>> THEN st
    ELSE LET new_signals == SortByConfidence(EvaluateBreakouts(detected, st, quotes, config, time))
             available_slots == config.max_positions - Len(st.positions)
         IN ExecuteSignals(st, TopSignals(new_signals, available_slots))

\* calculate_volume_profiles, period DAILY: the profile of the current
\* trading day for every symbol
RECURSIVE CalculateVolumeProfiles(_, _, _)
CalculateVolumeProfiles(st, symbols, ticks) ==
    IF symbols = {} THEN [st EXCEPT !.vp_calculated = TRUE]
    ELSE LET symbol == CHOOSE x \in symbols : TRUE
             vp_data == CalculateVolumeProfile(ticks[symbol], SessionStart, NoTime)
         IN CalculateVolumeProfiles(
                IF vp_data # None
                THEN [st EXCEPT !.volume_profiles[symbol] = vp_data,
                                !.calculated_profiles[symbol] = vp_data]
                ELSE st,
                symbols \ {symbol}, ticks)

\* _update_market_state
UpdateMarketState(st, config) ==
    [st EXCEPT !.market_state =
        [vp_calculated |-> st.vp_calculated,
         max_positions_reached |-> Len(st.positions) >= config.max_positions,
         daily_loss_limit_hit |->
             st.daily_pnl * MaxDailyLossDiv < -(PortfolioValue * Scale)]]

\* run_strategy_cycle with the scan ahead of the exits
StrategyCycle_ScanFirst(st, ticks, quotes, detected, config, time) ==
    LET s1 == UpdateMarketState(st, config)
        s2 == IF ~s1.vp_calculated THEN CalculateVolumeProfiles(s1, Symbols, ticks) ELSE s1
        s3 == IF Len(s2.positions) < config.max_positions
              THEN ScanForBreakoutSignals(s2, detected, quotes, config, time)
              ELSE s2
    IN MonitorPositions(s3, quotes, time)

\* run_strategy_cycle
StrategyCycle(st, ticks, quotes, detected, config, time) ==
    LET s1 == UpdateMarketState(st, config)
        s2 == IF ~s1.vp_calculated THEN CalculateVolumeProfiles(s1, Symbols, ticks) ELSE s1
        s3 == MonitorPositions(s2, quotes, time)
    IN IF Len(s3.positions) < config.max_positions
       THEN ScanForBreakoutSignals(s3, detected, quotes, config, time)
       ELSE s3

(* ------------------------------------------------------------------ *)
(* Inputs                                                              *)
(* ------------------------------------------------------------------ *)

\* number of quotes delivered after the initial state
MaxLiveTicks == 3
\* number of closed trades after which no further cycle is run
MaxTrades == 2
\* last traded prices and volumes of the quotes delivered for a symbol
LivePrices(symbol) == IF symbol = "A" THEN {88, 96, 100, 104, 112} ELSE {100, 104}
LiveVolumes == {1}

\* a tick buffer from <<price, volume>> pairs; the first tick is at time first
MakeTicks(pairs, first) ==
    [i \in DOMAIN pairs |->
        [ltp |-> pairs[i][1], volume |-> pairs[i][2], timestamp |-> first + i - 1]]

\* one tick of the previous day, then a window with a pronounced POC at 100
WinStrong ==
    MakeTicks(<< <<90, 50>>, <<98, 1>>, <<99, 2>>, <<100, 5>>, <<100, 5>>, <<101, 2>>,
                 <<102, 1>>, <<103, 1>>, <<100, 3>>, <<99, 1>>, <<101, 1>> >>,
              SessionStart - 1)
\* a flat window: every bucket holds the same volume
WinWeak ==
    MakeTicks(<< <<90, 50>>, <<98, 2>>, <<99, 2>>, <<100, 2>>, <<101, 2>>, <<102, 2>>,
                 <<98, 2>>, <<99, 2>>, <<100, 2>>, <<101, 2>>, <<103, 2>> >>,
              SessionStart - 1)
\* the time of the last tick of the initial buffers
InitTime == SessionStart + MinTicks - 1

\* nine ticks of the current day: one short of a profile window
WinShort ==
    MakeTicks(<< <<98, 1>>, <<99, 2>>, <<100, 5>>, <<100, 5>>, <<101, 2>>, <<102, 1>>,
                 <<103, 1>>, <<100, 3>>, <<99, 1>> >>,
              SessionStart + 1)

\* one tick of the previous day, then a window over 99..105: its value area
\* is [100.2, 102.6], a fifth of a point above the live price 100
WinNear ==
    MakeTicks(<< <<90, 50>>, <<101, 4>>, <<99, 1>>, <<102, 3>>, <<103, 3>>, <<105, 2>>,
                 <<101, 4>>, <<102, 2>>, <<104, 1>>, <<103, 1>>, <<100, 1>> >>,
              SessionStart - 1)

InitBuffers == {WinStrong, WinWeak, WinNear, WinShort, <<>>}

\* the configuration fields that vary: the defaults of
\* VolumeProfileStrategyConfig (with a single position slot) and the settings
\* that switch volume confirmation or trailing stops off or add a slot
DefaultConfig ==
    [max_positions |-> 1, enable_trailing_stops |-> TRUE,
     require_volume_confirmation |-> TRUE, avoid_low_volume_nodes |-> TRUE]
Configs ==
    {DefaultConfig,
     [DefaultConfig EXCEPT !.require_volume_confirmation = FALSE],
     [DefaultConfig EXCEPT !.require_volume_confirmation = FALSE, !.max_positions = 2],
     [DefaultConfig EXCEPT !.require_volume_confirmation = FALSE, !.max_positions = 2,
                           !.avoid_low_volume_nodes = FALSE],
     [DefaultConfig EXCEPT !.require_volume_confirmation = FALSE,
                           !.enable_trailing_stops = FALSE]}

(* ------------------------------------------------------------------ *)
(* Specification                                                       *)
(* ------------------------------------------------------------------ *)

\* VolumeProfileBreakoutStrategy.__init__, followed by the quotes received
\* before the first strategy cycle
Init ==
    /\ strategy_config \in Configs
    /\ tick_data \in [Symbols -> InitBuffers]
    /\ tick_data["A"] = WinStrong
    /\ live_quotes = [s \in Symbols |->
                        IF tick_data[s] = <<>> THEN None
                        ELSE tick_data[s][Len(tick_data[s])]]
    /\ calculated_profiles = [s \in Symbols |-> None]
    /\ volume_profiles = [s \in Symbols |-> None]
    /\ vp_calculated = FALSE
    /\ positions = <<>>
    /\ completed_trades = <<>>
    /\ signals_generated_today = <<>>
    /\ daily_pnl = 0
    /\ breakout_detected = <<>>
    /\ market_state = [vp_calculated |-> FALSE, max_positions_reached |-> FALSE,
                       daily_loss_limit_hit |-> FALSE]
    /\ now = InitTime
    /\ metrics = DefaultMetrics

\* _on_live_data_update flagging an instrument that has no profile
OnLiveDataUpdate_NoProfileGuard(symbol, ltp, volume) ==
    LET live_quote == [ltp |-> ltp, volume |-> volume, timestamp |-> now + 1]
    IN /\ now < InitTime + MaxLiveTicks
       /\ symbol \in Symbols
       /\ now' = now + 1
       /\ live_quotes' = [live_quotes EXCEPT ![symbol] = live_quote]
       /\ tick_data' = [tick_data EXCEPT ![symbol] = Append(@, live_quote)]
       /\ positions' =
            [i \in DOMAIN positions |->
                IF positions[i].symbol = symbol
                THEN UpdatePositionTracking(positions[i], ltp * Scale, strategy_config)
                ELSE positions[i]]
       /\ breakout_detected' =
            IF vp_calculated /\ volume_profiles[symbol] # None
            THEN CheckForBreakout(breakout_detected, symbol, volume_profiles[symbol],
                                  ltp * Scale)
            ELSE IF HasKey(breakout_detected, symbol) THEN breakout_detected
            ELSE DictSet(breakout_detected, [symbol |-> symbol, type |-> "VAH"])
       /\ UNCHANGED <<calculated_profiles, strategy_config, completed_trades,
                      signals_generated_today, volume_profiles, vp_calculated,
                      daily_pnl, market_state, metrics>>

\* _on_live_data_update tracking every open position with the quote
OnLiveDataUpdate_TracksAll(symbol, ltp, volume) ==
    LET live_quote == [ltp |-> ltp, volume |-> volume, timestamp |-> now + 1]
    IN /\ now < InitTime + MaxLiveTicks
       /\ symbol \in Symbols
       /\ now' = now + 1
       /\ live_quotes' = [live_quotes EXCEPT ![symbol] = live_quote]
       /\ tick_data' = [tick_data EXCEPT ![symbol] = Append(@, live_quote)]
       /\ positions' =
            [i \in DOMAIN positions |->
                UpdatePositionTracking(positions[i], ltp * Scale, strategy_config)]
       /\ breakout_detected' =
            IF vp_calculated /\ volume_profiles[symbol] # None
            THEN CheckForBreakout(breakout_detected, symbol, volume_profiles[symbol],
                                  ltp * Scale)
            ELSE breakout_detected
       /\ UNCHANGED <<calculated_profiles, strategy_config, completed_trades,
                      signals_generated_today, volume_profiles, vp_calculated,
                      daily_pnl, market_state, metrics>>

\* _on_live_data_update(symbol, live_quote)
OnLiveDataUpdate(symbol, ltp, volume) ==
    LET live_quote == [ltp |-> ltp, volume |-> volume, timestamp |-> now + 1]
    IN /\ now < InitTime + MaxLiveTicks
       /\ symbol \in Symbols
       /\ now' = now + 1
       /\ live_quotes' = [live_quotes EXCEPT ![symbol] = live_quote]
       /\ tick_data' = [tick_data EXCEPT ![symbol] = Append(@, live_quote)]
       /\ positions' =
            [i \in DOMAIN positions |->
                IF positions[i].symbol = symbol
                THEN UpdatePositionTracking(positions[i], ltp * Scale, strategy_config)
                ELSE positions[i]]
       /\ breakout_detected' =
            IF vp_calculated /\ volume_profiles[symbol] # None
            THEN CheckForBreakout(breakout_detected, symbol, volume_profiles[symbol],
                                  ltp * Scale)
            ELSE breakout_detected
       /\ UNCHANGED <<calculated_profiles, strategy_config, completed_trades,
                      signals_generated_today, volume_profiles, vp_calculated,
                      daily_pnl, market_state, metrics>>

\* the strategy fields a cycle reads and writes
StrategyFields ==
    [positions |-> positions,
     completed_trades |-> completed_trades,
     signals_generated_today |-> signals_generated_today,
     daily_pnl |-> daily_pnl,
     volume_profiles |-> volume_profiles,
     calculated_profiles |-> calculated_profiles,
     vp_calculated |-> vp_calculated,
     market_state |-> market_state]

\* run_strategy_cycle()
RunStrategyCycle ==
    /\ Len(completed_trades) < MaxTrades
    /\ \E st \in {StrategyCycle(StrategyFields, tick_data, live_quotes, breakout_detected,
                                 strategy_config, now)} :
       /\ positions' = st.positions
       /\ completed_trades' = st.completed_trades
       /\ signals_generated_today' = st.signals_generated_today
       /\ daily_pnl' = st.daily_pnl
       /\ volume_profiles' = st.volume_profiles
       /\ calculated_profiles' = st.calculated_profiles
       /\ vp_calculated' = st.vp_calculated
       /\ market_state' = st.market_state
       /\ UNCHANGED <<tick_data, strategy_config, live_quotes, breakout_detected, now,
                      metrics>>

Next ==
    \/ \E symbol \in Symbols : \E ltp \in LivePrices(symbol), volume \in LiveVolumes :
          OnLiveDataUpdate(symbol, ltp, volume)
    \/ RunStrategyCycle

Spec == Init /\ [][Next]_vars

\* strategy.calculate_volume_profiles() called by the owner of the strategy
\* object, outside run_strategy_cycle (as cmd_test does)
CalculateVolumeProfilesCall ==
    /\ \E st \in {CalculateVolumeProfiles(StrategyFields, Symbols, tick_data)} :
       /\ volume_profiles' = st.volume_profiles
       /\ calculated_profiles' = st.calculated_profiles
       /\ vp_calculated' = st.vp_calculated
    /\ UNCHANGED <<tick_data, strategy_config, positions, completed_trades,
                   signals_generated_today, daily_pnl, live_quotes, breakout_detected,
                   market_state, now, metrics>>

\* the strategy driven through its public methods: quotes, cycles and
\* direct profile calculations
NextApi ==
    \/ Next
    \/ CalculateVolumeProfilesCall

\* the strategy constructed with the default configuration
InitApi ==
    /\ Init
    /\ strategy_config = DefaultConfig

SpecApi == InitApi /\ [][NextApi]_vars

(* ------------------------------------------------------------------ *)
(* The calculator on its own: profiles of bounded tick windows         *)
(* ------------------------------------------------------------------ *)

\* number of ticks of a window whose price and volume are chosen freely
FreeTicks == 3
\* number of ticks a window holds beyond MinTicks
SpareTicks == 2
CalcPrices == {100, 101, 102, 104, 105}
CalcVolumes == {1, 2}
\* the volume of the ticks that fill a window up, at the price of its last free tick
PadVolumes == {0, 1}
\* the tick added by add_tick_data
AddedPrices == {103}
AddedVolumes == {1}
\* the <<start_time, end_time>> a profile is asked for when the last tick is at n
CalcWindows(n) == {<<NoTime, NoTime>>, <<2, n - 1>>, <<4, n - 1>>}

WindowLen == MinTicks + SpareTicks

\* FreeTicks free ticks, then ticks at the last price with volume pad
Window(free, pad) ==
    MakeTicks([i \in 1..WindowLen |->
                  IF i <= FreeTicks THEN free[i] ELSE <<free[FreeTicks][1], pad>>], 1)

\* VolumeProfileCalculator.__init__ with one symbol's buffer filled
InitCalc ==
    /\ \E free \in [1..FreeTicks -> CalcPrices \X CalcVolumes], pad \in PadVolumes :
          tick_data = [s \in Symbols |-> IF s = "A" THEN Window(free, pad) ELSE <<>>]
    /\ strategy_config = DefaultConfig
    /\ live_quotes = [s \in Symbols |-> None]
    /\ calculated_profiles = [s \in Symbols |-> None]
    /\ volume_profiles = [s \in Symbols |-> None]
    /\ vp_calculated = FALSE
    /\ positions = <<>>
    /\ completed_trades = <<>>
    /\ signals_generated_today = <<>>
    /\ daily_pnl = 0
    /\ breakout_detected = <<>>
    /\ market_state = [vp_calculated |-> FALSE, max_positions_reached |-> FALSE,
                       daily_loss_limit_hit |-> FALSE]
    /\ now = WindowLen
    /\ metrics = DefaultMetrics

\* vp_calculator.calculate_volume_profile(symbol, start_time, end_time)
CalculateVolumeProfileCall(symbol, start_time, end_time) ==
    /\ \E vp_data \in {CalculateVolumeProfile(tick_data[symbol], start_time, end_time)} :
          calculated_profiles' = CacheProfile(calculated_profiles, symbol, vp_data)
    /\ UNCHANGED <<tick_data, strategy_config, positions, completed_trades,
                   signals_generated_today, volume_profiles, vp_calculated, daily_pnl,
                   live_quotes, breakout_detected, market_state, now, metrics>>

\* vp_calculator.add_tick_data(symbol, quote)
AddTickData(symbol, ltp, volume) ==
    /\ now < WindowLen + 1
    /\ now' = now + 1
    /\ tick_data' = [tick_data EXCEPT ![symbol] =
                        Append(@, [ltp |-> ltp, volume |-> volume, timestamp |-> now + 1])]
    /\ UNCHANGED <<calculated_profiles, strategy_config, positions, completed_trades,
                   signals_generated_today, volume_profiles, vp_calculated, daily_pnl,
                   live_quotes, breakout_detected, market_state, metrics>>

\* vp_calculator.clear_tick_data(symbol)
ClearTickData(symbol) ==
    /\ tick_data' = [tick_data EXCEPT ![symbol] = <<>>]
    /\ UNCHANGED <<calculated_profiles, strategy_config, positions, completed_trades,
                   signals_generated_today, volume_profiles, vp_calculated, daily_pnl,
                   live_quotes, breakout_detected, market_state, now, metrics>>

NextCalc ==
    \/ \E symbol \in Symbols, w \in CalcWindows(now) :
          CalculateVolumeProfileCall(symbol, w[1], w[2])
    \/ \E symbol \in Symbols, ltp \in AddedPrices, volume \in AddedVolumes :
          AddTickData(symbol, ltp, volume)
    \/ \E symbol \in Symbols : ClearTickData(symbol)

SpecCalc == InitCalc /\ [][NextCalc]_vars

(* ------------------------------------------------------------------ *)
(* The calculator on windows that fill five buckets                    *)
(* ------------------------------------------------------------------ *)

\* five prices that fall into five different buckets, in ascending order
AreaPrices == <<100, 101, 102, 103, 104>>
\* the volume traded at a price
AreaVolumes == {100, 200, 500}
\* the part of the volume of a price that arrives with its second tick
AreaSplit == 50
\* the orders in which the prices arrive
AreaOrders == {<<1, 2, 3, 4, 5>>, <<5, 4, 3, 2, 1>>, <<3, 1, 5, 2, 4>>}

\* two ticks per price, the prices in the given order, twice
AreaWindow(volume, order) ==
    MakeTicks([i \in 1..(2 * Len(AreaPrices)) |->
                  IF i <= Len(AreaPrices)
                  THEN <<AreaPrices[order[i]], volume[order[i]] - AreaSplit>>
                  ELSE <<AreaPrices[order[i - Len(AreaPrices)]], AreaSplit>>], 1)

\* VolumeProfileCalculator.__init__ with one symbol's buffer filled
InitArea ==
    /\ \E volume \in [1..Len(AreaPrices) -> AreaVolumes], order \in AreaOrders :
          tick_data = [s \in Symbols |-> IF s = "A" THEN AreaWindow(volume, order) ELSE <<>>]
    /\ strategy_config = DefaultConfig
    /\ live_quotes = [s \in Symbols |-> None]
    /\ calculated_profiles = [s \in Symbols |-> None]
    /\ volume_profiles = [s \in Symbols |-> None]
    /\ vp_calculated = FALSE
    /\ positions = <<>>
    /\ completed_trades = <<>>
    /\ signals_generated_today = <<>>
    /\ daily_pnl = 0
    /\ breakout_detected = <<>>
    /\ market_state = [vp_calculated |-> FALSE, max_positions_reached |-> FALSE,
                       daily_loss_limit_hit |-> FALSE]
    /\ now = 2 * Len(AreaPrices)
    /\ metrics = DefaultMetrics

NextArea ==
    \/ \E symbol \in Symbols : CalculateVolumeProfileCall(symbol, NoTime, NoTime)
    \/ \E symbol \in Symbols : ClearTickData(symbol)

SpecArea == InitArea /\ [][NextArea]_vars

(* ------------------------------------------------------------------ *)
(* The confidence score on its own                                     *)
(* ------------------------------------------------------------------ *)

\* number of confidence evaluations in a behaviour
MaxEvaluations == 2
\* volume_ratio, in hundredths
ConfVolumeRatios == {99, 100, 150, 200}
\* distance_from_poc_pct as num / den
ConfDistances == {[num |-> n, den |-> 100] : n \in {99, 100, 150, 200}}
\* poc_strength as num / den
ConfStrengths == {[num |-> n, den |-> 100] : n \in {149, 150, 199, 200}}

\* a strategy holding one profile, whose POC strength is drawn from
\* ConfStrengths
InitConf ==
    /\ \E poc_strength \in ConfStrengths :
          volume_profiles =
             [s \in Symbols |->
                 IF s = "A"
                 THEN [CalculateVolumeProfile(WinStrong, SessionStart, NoTime)
                          EXCEPT !.poc_strength = poc_strength]
                 ELSE None]
    /\ tick_data = [s \in Symbols |-> IF s = "A" THEN WinStrong ELSE <<>>]
    /\ strategy_config = DefaultConfig
    /\ live_quotes = [s \in Symbols |-> None]
    /\ calculated_profiles = volume_profiles
    /\ vp_calculated = TRUE
    /\ positions = <<>>
    /\ completed_trades = <<>>
    /\ signals_generated_today = <<>>
    /\ daily_pnl = 0
    /\ breakout_detected = <<>>
    /\ market_state = [vp_calculated |-> FALSE, max_positions_reached |-> FALSE,
                       daily_loss_limit_hit |-> FALSE]
    /\ now = InitTime
    /\ metrics = DefaultMetrics

\* _calculate_signal_confidence(vp_data, entry_price, volume_ratio, near_hvn,
\* near_lvn, distance_from_poc_pct); the result is recorded with its
\* arguments, as in the signal's diagnostic fields
CalculateSignalConfidenceCall(symbol, volume_ratio, near_hvn, near_lvn, distance) ==
    /\ Len(signals_generated_today) < MaxEvaluations
    /\ volume_profiles[symbol] # None
    /\ signals_generated_today' =
          Append(signals_generated_today,
                 [symbol |-> symbol,
                  confidence |-> CalculateSignalConfidence(volume_profiles[symbol],
                                     volume_ratio, near_hvn, near_lvn,
                                     distance.num, distance.den),
                  volume_ratio |-> volume_ratio,
                  distance_from_poc_pct |-> distance,
                  near_hvn |-> near_hvn,
                  near_lvn |-> near_lvn])
    /\ UNCHANGED <<tick_data, calculated_profiles, strategy_config, positions,
                   completed_trades, volume_profiles, vp_calculated, daily_pnl,
                   live_quotes, breakout_detected, market_state, now, metrics>>

NextConf ==
    \E symbol \in Symbols, volume_ratio \in ConfVolumeRatios, distance \in ConfDistances,
       near_hvn \in BOOLEAN, near_lvn \in BOOLEAN :
          CalculateSignalConfidenceCall(symbol, volume_ratio, near_hvn, near_lvn, distance)

SpecConf == InitConf /\ [][NextConf]_vars

(* ------------------------------------------------------------------ *)
(* The execution of a signal on its own                                *)
(* ------------------------------------------------------------------ *)

\* number of executed signals in a behaviour
MaxExecutions == 2
\* entry and stop prices of the signals handed to _execute_signal
ExecEntries == {100, 2000}
ExecStops == {90, 97, 100, 110, 900}

\* a VolumeProfileSignal with the given direction, entry and stop
ExecSignal(symbol, signal_type, entry, stop, time) ==
    [symbol |-> symbol,
     signal_type |-> signal_type,
     breakout_level |-> entry * Scale,
     breakout_type |-> IF signal_type = "LONG" THEN "VAH" ELSE "VAL",
     entry_price |-> entry * Scale,
     stop_loss |-> stop * Scale,
     target_price |-> (entry + (entry - stop) * TargetMultiplier) * Scale,
     confidence |-> 100,
     volume_ratio |-> VolumeRatioPlaceholder,
     near_hvn |-> FALSE,
     near_lvn |-> FALSE,
     poc |-> stop * Scale,
     risk_amount |-> Abs(entry - stop) * Scale,
     reward_amount |-> Abs(entry - stop) * TargetMultiplier * Scale,
     timestamp |-> time]

\* a strategy without positions, profiles or quotes
InitExec ==
    /\ tick_data = [s \in Symbols |-> <<>>]
    /\ strategy_config = DefaultConfig
    /\ live_quotes = [s \in Symbols |-> None]
    /\ calculated_profiles = [s \in Symbols |-> None]
    /\ volume_profiles = [s \in Symbols |-> None]
    /\ vp_calculated = FALSE
    /\ positions = <<>>
    /\ completed_trades = <<>>
    /\ signals_generated_today = <<>>
    /\ daily_pnl = 0
    /\ breakout_detected = <<>>
    /\ market_state = [vp_calculated |-> FALSE, max_positions_reached |-> FALSE,
                       daily_loss_limit_hit |-> FALSE]
    /\ now = InitTime
    /\ metrics = DefaultMetrics

\* _execute_signal(signal)
ExecuteSignalCall(signal) ==
    /\ Len(signals_generated_today) < MaxExecutions
    /\ \E st \in {ExecuteSignal(StrategyFields, signal)} :
          /\ positions' = st.positions
          /\ signals_generated_today' = st.signals_generated_today
    /\ UNCHANGED <<tick_data, calculated_profiles, strategy_config, completed_trades,
                   volume_profiles, vp_calculated, daily_pnl, live_quotes,
                   breakout_detected, market_state, now, metrics>>

NextExec ==
    \E symbol \in Symbols, signal_type \in {"LONG", "SHORT"}, entry \in ExecEntries,
       stop \in ExecStops :
          ExecuteSignalCall(ExecSignal(symbol, signal_type, entry, stop, now))

SpecExec == InitExec /\ [][NextExec]_vars

(* ------------------------------------------------------------------ *)
(* The strategy metrics on their own                                   *)
(* ------------------------------------------------------------------ *)

\* length of the trade lists handed to update_metrics
MaxMetricTrades == 2

\* a closed trade of 100 units entered at 100 with the POC at 95 (long) or
\* 105 (short), left at exit_price after five minutes
MetricTrade(signal_type, exit_price) ==
    CreateTradeResultFromPosition(
        CreatePositionFromSignal(
            ExecSignal("A", signal_type, 100, IF signal_type = "LONG" THEN 95 ELSE 105,
                       InitTime),
            IF signal_type = "LONG" THEN 100 ELSE -100),
        exit_price * Scale, "TARGET",
        IF signal_type = "LONG" THEN "VAH_BREAKOUT" ELSE "VAL_BREAKOUT", InitTime + 5)

\* winning and losing trades of both directions
MetricTrades == {MetricTrade(t, x) : t \in {"LONG", "SHORT"}, x \in {90, 110}}

\* the trade lists of length 0..MaxMetricTrades
MetricTradeLists ==
    UNION {[1..n -> MetricTrades] : n \in 0..MaxMetricTrades}

\* a metrics object that has been updated from one trade list, and a trade
\* list for the next update
InitMetrics ==
    /\ \E earlier \in MetricTradeLists : metrics = UpdateMetrics(DefaultMetrics, earlier)
    /\ completed_trades \in MetricTradeLists
    /\ tick_data = [s \in Symbols |-> <<>>]
    /\ strategy_config = DefaultConfig
    /\ live_quotes = [s \in Symbols |-> None]
    /\ calculated_profiles = [s \in Symbols |-> None]
    /\ volume_profiles = [s \in Symbols |-> None]
    /\ vp_calculated = FALSE
    /\ positions = <<>>
    /\ signals_generated_today = <<>>
    /\ daily_pnl = 0
    /\ breakout_detected = <<>>
    /\ market_state = [vp_calculated |-> FALSE, max_positions_reached |-> FALSE,
                       daily_loss_limit_hit |-> FALSE]
    /\ now = InitTime + 5

\* metrics.update_metrics(completed_trades)
UpdateMetricsCall ==
    /\ metrics' = UpdateMetrics(metrics, completed_trades)
    /\ UNCHANGED <<tick_data, calculated_profiles, strategy_config, positions,
                   completed_trades, signals_generated_today, volume_profiles,
                   vp_calculated, daily_pnl, live_quotes, breakout_detected,
                   market_state, now>>

NextMetrics == UpdateMetricsCall

SpecMetrics == InitMetrics /\ [][NextMetrics]_vars

(* ------------------------------------------------------------------ *)
(* The strategy with a quote far above the profile                     *)
(* ------------------------------------------------------------------ *)

\* last traded prices of the quotes: A trades far above its profile, so far
\* that the price risk to the POC exceeds the risk amount of a trade
ScanPrices(symbol) == IF symbol = "A" THEN {1200} ELSE {96, 104, 112}

\* the strategy after construction, both instruments with a full window,
\* volume confirmation switched off
InitScan ==
    /\ Init
    /\ tick_data["B"] = WinStrong
    /\ ~strategy_config.require_volume_confirmation

NextScan ==
    \/ \E symbol \in Symbols : \E ltp \in ScanPrices(symbol), volume \in LiveVolumes :
          OnLiveDataUpdate(symbol, ltp, volume)
    \/ RunStrategyCycle

SpecScan == InitScan /\ [][NextScan]_vars

(* ------------------------------------------------------------------ *)
(* Properties                                                          *)
(* ------------------------------------------------------------------ *)

CountOf(d, symbol) == Cardinality({i \in DOMAIN d : d[i].symbol = symbol})

\* the trades a step appends
NewTrades == SubSeq(completed_trades', Len(completed_trades) + 1, Len(completed_trades'))

\* the position p is still open after the step and was not closed in it
StaysOpen(p) ==
    /\ HasKey(positions', p.symbol)
    /\ \A i \in DOMAIN NewTrades : NewTrades[i].symbol # p.symbol

PendingEvaluation(s) ==
    /\ HasKey(breakout_detected, s)
    /\ live_quotes[s] # None
    /\ volume_profiles[s] # None
    /\ \E st \in {MonitorPositions(StrategyFields, live_quotes, now)} :
          /\ Len(st.positions) < strategy_config.max_positions
          /\ ~HasKey(st.positions, s)

C9_ValPocVah ==
    \A s \in Symbols :
       calculated_profiles[s] # None =>
          /\ calculated_profiles[s].val <= calculated_profiles[s].poc
          /\ calculated_profiles[s].poc <= calculated_profiles[s].vah

\* a profile whose value area extends on both sides of the POC
C9_Witness ==
    \E s \in Symbols :
       /\ calculated_profiles[s] # None
       /\ calculated_profiles[s].val < calculated_profiles[s].poc
       /\ calculated_profiles[s].poc < calculated_profiles[s].vah

\* the volume of the buckets of a profile between val and vah inclusive
VolumeBetween(vp_data) ==
    SumSeq([i \in DOMAIN vp_data.volume_by_price |->
              IF /\ vp_data.val <= vp_data.volume_by_price[i].price
                 /\ vp_data.volume_by_price[i].price <= vp_data.vah
              THEN vp_data.volume_by_price[i].volume ELSE 0])

\* C10: for every built profile, value_area_volume is the volume of the
\* buckets between val and vah inclusive, is at least value_area_pct percent
\* of total_volume, and equals total_volume when val and vah are the lowest
\* and the highest used bucket.
C10_ValueAreaVolume ==
    \A s \in Symbols :
       LET vp_data == calculated_profiles[s]
           prices == {vp_data.volume_by_price[i].price : i \in DOMAIN vp_data.volume_by_price}
       IN vp_data # None =>
            /\ vp_data.value_area_volume = VolumeBetween(vp_data)
            /\ vp_data.value_area_volume * 100 >= ValueAreaPct * vp_data.total_volume
            /\ ((\A x \in prices : vp_data.val <= x /\ x <= vp_data.vah)
                  => vp_data.value_area_volume = vp_data.total_volume)

\* a profile whose value area was expanded downwards and upwards and stopped
\* short of the whole volume
C10_Witness ==
    \E s \in Symbols :
       LET vp_data == calculated_profiles[s]
       IN /\ vp_data # None
          /\ vp_data.val < vp_data.poc
          /\ vp_data.poc < vp_data.vah
          /\ vp_data.value_area_volume < vp_data.total_volume

\* NumPriceLevels times the lower bound of bucket k of a profile
LevelTimesN(vp_data, k) ==
    vp_data.profile_low * NumPriceLevels + k * (vp_data.profile_high - vp_data.profile_low)

\* the price lies in bucket k: [level k, level k+1), the last bucket closed
InBucket(vp_data, price, k) ==
    /\ LevelTimesN(vp_data, k) <= price * Scale * NumPriceLevels
    /\ IF k = NumPriceLevels - 1
       THEN price * Scale * NumPriceLevels <= LevelTimesN(vp_data, k + 1)
       ELSE price * Scale * NumPriceLevels < LevelTimesN(vp_data, k + 1)

\* the ticks a profile was built from, among the buffered ticks
WindowOf(ticks, vp_data) ==
    SelectSeq(ticks, LAMBDA t : /\ vp_data.data_start_time <= t.timestamp
                                /\ t.timestamp <= vp_data.data_end_time)

\* the volume of the ticks of bucket k
TickVolumeIn(ticks, vp_data, k) ==
    SumSeq([i \in DOMAIN ticks |->
              IF InBucket(vp_data, ticks[i].ltp, k) THEN ticks[i].volume ELSE 0])

\* the volume a profile records under the lower bound of bucket k
BucketVolume(vp_data, k) ==
    SumSeq([i \in DOMAIN vp_data.volume_by_price |->
              IF vp_data.volume_by_price[i].price * NumPriceLevels = LevelTimesN(vp_data, k)
              THEN vp_data.volume_by_price[i].volume ELSE 0])

\* C11: bucketing conserves volume: in every step that builds a profile,
\* each tick of the window lies in exactly one bucket 0..N-1 (a tick at
\* price_max in bucket N-1), each bucket records the volume of its ticks under
\* its lower-bound price and no other key is recorded, and the sum of the
\* bucket volumes = total_volume = the sum of the volumes of the ticks.
C11_VolumeConserved ==
    [][\A s \in Symbols :
          calculated_profiles'[s] # calculated_profiles[s] =>
             \A vp_data \in {calculated_profiles'[s]} :
             \A ticks \in {WindowOf(tick_data[s], vp_data)} :
             LET buckets == 0..(NumPriceLevels - 1)
             IN /\ Len(ticks) = vp_data.num_ticks
                /\ \A i \in DOMAIN ticks :
                      /\ Cardinality({k \in buckets : InBucket(vp_data, ticks[i].ltp, k)}) = 1
                      /\ ticks[i].ltp * Scale = vp_data.profile_high
                            => InBucket(vp_data, ticks[i].ltp, NumPriceLevels - 1)
                /\ \A k \in buckets : BucketVolume(vp_data, k) = TickVolumeIn(ticks, vp_data, k)
                /\ \A i \in DOMAIN vp_data.volume_by_price :
                      \E k \in buckets :
                         vp_data.volume_by_price[i].price * NumPriceLevels
                            = LevelTimesN(vp_data, k)
                /\ SumSeq([i \in DOMAIN vp_data.volume_by_price |->
                             vp_data.volume_by_price[i].volume]) = vp_data.total_volume
                /\ SumSeq([i \in DOMAIN ticks |-> ticks[i].volume]) = vp_data.total_volume]_vars

\* a profile of three or more buckets built from a filtered window of the
\* buffer, its total volume the volume of the ticks of the window
C11_Witness ==
    \E s \in Symbols :
       LET vp_data == calculated_profiles[s]
       IN /\ vp_data # None
          /\ Len(vp_data.volume_by_price) >= 3
          /\ vp_data.num_ticks < Len(tick_data[s])
          /\ vp_data.num_ticks = Len(WindowOf(tick_data[s], vp_data))
          /\ vp_data.total_volume =
                SumSeq([i \in DOMAIN WindowOf(tick_data[s], vp_data) |->
                          WindowOf(tick_data[s], vp_data)[i].volume])

\* C12: the POC of every built profile is a bucket of maximum volume, and the
\* lowest-priced of the buckets of maximum volume.
C12_PocLowestOnTie ==
    \A s \in Symbols :
       LET vp_data == calculated_profiles[s]
           d == vp_data.volume_by_price
       IN vp_data # None =>
            \E i \in DOMAIN d :
               /\ d[i].price = vp_data.poc
               /\ \A j \in DOMAIN d : d[j].volume <= d[i].volume
               /\ \A j \in DOMAIN d : d[j].volume = d[i].volume => d[i].price <= d[j].price

\* the bucket volumes of a profile in ascending order of price
SortedVolumes(vp_data) ==
    LET sorted_prices == SortedPrices(vp_data.volume_by_price)
    IN [i \in DOMAIN sorted_prices |-> VolumeOf(vp_data.volume_by_price, sorted_prices[i])]

\* the value area grown over the volumes v from the range lo..hi holding acc:
\* one bucket per step towards the neighbour of larger volume, upwards on equal
\* volumes, towards the remaining side when the other is exhausted, until acc
\* reaches ValueAreaPct percent of total; the result is <<hi, lo, acc>>
RECURSIVE GrowValueArea(_, _, _, _, _)
GrowValueArea(v, lo, hi, acc, total) ==
    IF acc * 100 >= total * ValueAreaPct \/ (lo = 1 /\ hi = Len(v)) THEN <<hi, lo, acc>>
    ELSE IF lo = 1 THEN GrowValueArea(v, lo, hi + 1, acc + v[hi + 1], total)
    ELSE IF hi = Len(v) THEN GrowValueArea(v, lo - 1, hi, acc + v[lo - 1], total)
    ELSE IF v[hi + 1] >= v[lo - 1] THEN GrowValueArea(v, lo, hi + 1, acc + v[hi + 1], total)
    ELSE GrowValueArea(v, lo - 1, hi, acc + v[lo - 1], total)

\* C13: the value area of every built profile is the range of used buckets
\* grown from the POC one bucket per step towards the neighbour of larger
\* volume, upwards on equal volumes, towards the remaining side when the other
\* is exhausted, stopping as soon as the accumulated volume reaches the target;
\* bucket volumes [100,100,500,100,200] give POC = val = third bucket,
\* vah = fifth bucket and value_area_volume = 800.
C13_ValueAreaGrowth ==
    \A s \in Symbols :
       calculated_profiles[s] # None =>
          \A vp_data \in {calculated_profiles[s]} :
          \A sorted_prices \in {SortedPrices(vp_data.volume_by_price)} :
          \A v \in {SortedVolumes(vp_data)} :
             LET poc_idx == IndexOf(sorted_prices, vp_data.poc)
                 grown == GrowValueArea(v, poc_idx, poc_idx, v[poc_idx], vp_data.total_volume)
             IN /\ vp_data.vah = sorted_prices[grown[1]]
                /\ vp_data.val = sorted_prices[grown[2]]
                /\ vp_data.value_area_volume = grown[3]
                /\ v = <<100, 100, 500, 100, 200>> =>
                      /\ vp_data.poc = sorted_prices[3]
                      /\ vp_data.val = sorted_prices[3]
                      /\ vp_data.vah = sorted_prices[5]
                      /\ vp_data.value_area_volume = 800

\* a profile built over the bucket volumes [100,100,500,100,200]
C13_Witness ==
    \E s \in Symbols :
       /\ calculated_profiles[s] # None
       /\ SortedVolumes(calculated_profiles[s]) = <<100, 100, 500, 100, 200>>
       /\ calculated_profiles[s].total_volume = 1000

\* C14: for every built profile whose average bucket volume is positive, no
\* bucket price is both a high volume node and a low volume node.
C14_HvnLvnDisjoint ==
    \A s \in Symbols :
       (calculated_profiles[s] # None /\ calculated_profiles[s].total_volume > 0) =>
          calculated_profiles[s].hvn_levels \cap calculated_profiles[s].lvn_levels = {}

\* a profile of positive volume with a high volume node and a low volume node
C14_Witness ==
    \E s \in Symbols :
       /\ calculated_profiles[s] # None
       /\ calculated_profiles[s].total_volume > 0
       /\ calculated_profiles[s].hvn_levels # {}
       /\ calculated_profiles[s].lvn_levels # {}

\* fewer than 10 ticks, or all prices equal
FailingWindow(ticks) ==
    \/ Len(ticks) < MinTicks
    \/ \A i, j \in DOMAIN ticks : ticks[i].ltp = ticks[j].ltp

\* C15: a build over a window of fewer than 10 ticks or of equal prices
\* returns no profile and leaves the cache as it is; a step that changes the
\* cache changes the profile of one instrument, to a profile of at least 10
\* ticks and two prices, and leaves the tick buffers alone.
C15_FailedBuild ==
    /\ [](\A s \in Symbols, w \in CalcWindows(now) :
            FailingWindow(FilterTicks(tick_data[s], w[1], w[2])) =>
               /\ CalculateVolumeProfile(tick_data[s], w[1], w[2]) = None
               /\ CacheProfile(calculated_profiles, s,
                               CalculateVolumeProfile(tick_data[s], w[1], w[2]))
                     = calculated_profiles)
    /\ [][calculated_profiles' # calculated_profiles =>
            /\ tick_data' = tick_data
            /\ \E s \in Symbols :
                  /\ \A o \in Symbols \ {s} : calculated_profiles'[o] = calculated_profiles[o]
                  /\ calculated_profiles'[s] # None
                  /\ calculated_profiles'[s].num_ticks >= MinTicks
                  /\ calculated_profiles'[s].profile_low < calculated_profiles'[s].profile_high]_vars

\* an instrument with a cached profile, a window of fewer than 10 ticks and a
\* window of 10 ticks of one price
C15_Witness ==
    \E s \in Symbols :
       /\ calculated_profiles[s] # None
       /\ \E w \in CalcWindows(now) :
             /\ FilterTicks(tick_data[s], w[1], w[2]) # <<>>
             /\ Len(FilterTicks(tick_data[s], w[1], w[2])) < MinTicks
       /\ \E w \in CalcWindows(now) :
             /\ Len(FilterTicks(tick_data[s], w[1], w[2])) >= MinTicks
             /\ FailingWindow(FilterTicks(tick_data[s], w[1], w[2]))

\* the ticks of the current day of s are at least 10 and of two prices
Buildable(s) ==
    \E ticks \in {FilterTicks(tick_data[s], SessionStart, NoTime)} :
       /\ Len(ticks) >= MinTicks
       /\ \E i, j \in DOMAIN ticks : ticks[i].ltp # ticks[j].ltp

Ticked(s) == live_quotes'[s] # live_quotes[s]

\* price (times Scale) lies above vah by at least min_breakout_distance_pct
UpperBreakout(price, vp_data) ==
    /\ price > vp_data.vah
    /\ (price - vp_data.vah) * 100 * MinBreakoutDen >= MinBreakoutNum * vp_data.vah

\* price (times Scale) lies below val by at least min_breakout_distance_pct
LowerBreakout(price, vp_data) ==
    /\ price < vp_data.val
    /\ (vp_data.val - price) * 100 * MinBreakoutDen >= MinBreakoutNum * vp_data.val

PocDistanceOk(price, vp_data) ==
    Abs(price - vp_data.poc) * 100 >= MinPocDistancePct * vp_data.poc

VolumeOk(config) ==
    config.require_volume_confirmation => VolumeRatioPlaceholder >= MinVolumeRatio

LvnOk(price, vp_data, config) ==
    config.avoid_low_volume_nodes =>
        \A node \in vp_data.lvn_levels : Abs(price - node) * 100 * NodeDistanceDiv > node

PassesFilters(s) ==
    /\ PocDistanceOk(live_quotes[s].ltp * Scale, volume_profiles[s])
    /\ VolumeOk(strategy_config)
    /\ LvnOk(live_quotes[s].ltp * Scale, volume_profiles[s], strategy_config)

\* the signal the next cycle computes for the flagged instrument s
CandidateSignal(s) ==
    EvaluateBreakoutSignal(s, Get(breakout_detected, s).type, live_quotes[s],
                           volume_profiles[s], strategy_config, now)

\* the strategy fields of a cycle when its scan starts
BeforeScan == MonitorPositions(UpdateMarketState(StrategyFields, strategy_config),
                               live_quotes, now)

VolumeTier(volume_ratio) ==
    IF volume_ratio >= 200 THEN 30
    ELSE IF volume_ratio >= 150 THEN 20
    ELSE IF volume_ratio >= 100 THEN 10 ELSE 0

DistanceTier(distance) ==
    IF distance.num >= 2 * distance.den THEN 25
    ELSE IF 2 * distance.num >= 3 * distance.den THEN 20
    ELSE IF distance.num >= distance.den THEN 15 ELSE 0

NodeTier(near_hvn, near_lvn) ==
    IF near_hvn THEN 25 ELSE IF ~near_lvn THEN 15 ELSE 5

StrengthTier(poc_strength) ==
    IF poc_strength.num >= 2 * poc_strength.den THEN 20
    ELSE IF 2 * poc_strength.num >= 3 * poc_strength.den THEN 15 ELSE 10

\* the arguments of a recorded evaluation
ConfidenceArgs(e) ==
    <<e.symbol, e.volume_ratio, e.distance_from_poc_pct, e.near_hvn, e.near_lvn>>

\* C20: every computed confidence is the sum of the four tiered
\* contributions capped at 1, lies within [0, 1], and two evaluations with
\* the same arguments give the same confidence (confidence in hundredths).
C20_ConfidenceTiers ==
    \A i \in DOMAIN signals_generated_today :
       \A e \in {signals_generated_today[i]} :
          /\ e.confidence =
                Min(VolumeTier(e.volume_ratio) + DistanceTier(e.distance_from_poc_pct)
                       + NodeTier(e.near_hvn, e.near_lvn)
                       + StrengthTier(volume_profiles[e.symbol].poc_strength),
                    100)
          /\ 0 <= e.confidence
          /\ e.confidence <= 100
          /\ \A j \in DOMAIN signals_generated_today :
                ConfidenceArgs(signals_generated_today[j]) = ConfidenceArgs(e)
                   => signals_generated_today[j].confidence = e.confidence

\* the same arguments evaluated twice, on the lowest volume tier with a
\* value, next to an LVN and with a POC strength just below 2.0
C20_Witness ==
    /\ Len(signals_generated_today) = 2
    /\ ConfidenceArgs(signals_generated_today[1]) = ConfidenceArgs(signals_generated_today[2])
    /\ signals_generated_today[1].volume_ratio = 100
    /\ signals_generated_today[1].distance_from_poc_pct = [num |-> 150, den |-> 100]
    /\ ~signals_generated_today[1].near_hvn
    /\ signals_generated_today[1].near_lvn
    /\ volume_profiles["A"].poc_strength = [num |-> 199, den |-> 100]
    /\ signals_generated_today[2].confidence = 50

\* the signal records a step appends
NewSignals ==
    SubSeq(signals_generated_today', Len(signals_generated_today) + 1,
           Len(signals_generated_today'))

\* s is a candidate of the coming scan whose signal could be executed
Admissible(s, st) ==
    /\ PendingEvaluation(s)
    /\ PassesFilters(s)
    /\ CandidateSignal(s).confidence >= MinConfidence
    /\ ExecuteSignal(st, CandidateSignal(s)) # st

IsFloorQuantity(q, price_risk) ==
    /\ 100 * q * price_risk <= PortfolioValue * RiskPerTradePct * Scale
    /\ PortfolioValue * RiskPerTradePct * Scale < 100 * (q + 1) * price_risk

Excursion(p, price) ==
    IF p.signal_type = "LONG" THEN price - p.entry_price ELSE p.entry_price - price

RatEq(a, b) == a.num * b.den = b.num * a.den

\* two metrics objects hold the same values
SameMetrics(a, b) ==
    /\ a.total_trades = b.total_trades
    /\ a.winning_trades = b.winning_trades
    /\ a.losing_trades = b.losing_trades
    /\ RatEq(a.win_rate, b.win_rate)
    /\ a.total_pnl = b.total_pnl
    /\ a.gross_profit = b.gross_profit
    /\ a.gross_loss = b.gross_loss
    /\ a.vah_breakout_trades = b.vah_breakout_trades
    /\ a.val_breakout_trades = b.val_breakout_trades
    /\ RatEq(a.vah_win_rate, b.vah_win_rate)
    /\ RatEq(a.val_win_rate, b.val_win_rate)
    /\ RatEq(a.avg_holding_period, b.avg_holding_period)
    /\ RatEq(a.avg_poc_distance, b.avg_poc_distance)

\* C26: update_metrics(trades) on any metrics object gives the values it
\* gives on a fresh one.
C26_MetricsFromTradesAlone ==
    SameMetrics(UpdateMetrics(metrics, completed_trades),
                UpdateMetrics(DefaultMetrics, completed_trades))

C28_HalfOpenWindow ==
    \A s \in Symbols :
       \A w \in {x \in CalcWindows(now) : x[1] # NoTime /\ x[2] # NoTime} :
          \A vp_data \in {CalculateVolumeProfile(tick_data[s], w[1], w[2])} :
             vp_data # None =>
                vp_data.num_ticks =
                   Cardinality({i \in DOMAIN tick_data[s] :
                                   /\ w[1] <= tick_data[s][i].timestamp
                                   /\ tick_data[s][i].timestamp < w[2]})

Others(d, s) == SelectSeq(d, LAMBDA e : e.symbol # s)

DailyLossLimitExceeded == daily_pnl * MaxDailyLossDiv < -(PortfolioValue * Scale)

RightSidedStopBounds ==
    (strategy_config.enable_trailing_stops /\ TrailNum > 0) =>
       \A i \in DOMAIN positions :
          LET p == positions[i]
          IN IF p.signal_type = "LONG"
             THEN p.stop_loss < p.entry_price =>
                     p.current_stop_loss >= p.stop_loss /\ p.current_stop_loss < p.highest_price
             ELSE p.stop_loss > p.entry_price =>
                     p.current_stop_loss <= p.stop_loss /\ p.current_stop_loss > p.lowest_price

C39_PocAtLeastAverage ==
    \A s \in Symbols :
       (calculated_profiles[s] # None /\ calculated_profiles[s].total_volume > 0) =>
          \A vp_data \in {calculated_profiles[s]} :
             /\ VolumeOf(vp_data.volume_by_price, vp_data.poc) * Len(vp_data.volume_by_price)
                   >= vp_data.total_volume
             /\ vp_data.poc_strength.num >= vp_data.poc_strength.den
             /\ vp_data.poc \notin vp_data.lvn_levels

\* a built profile over several buckets that all hold the same volume:
\* poc_strength is exactly 1
C39_Witness ==
    /\ calculated_profiles["A"] # None
    /\ calculated_profiles["A"].total_volume > 0
    /\ Len(calculated_profiles["A"].volume_by_price) > 1
    /\ calculated_profiles["A"].poc_strength.num = calculated_profiles["A"].poc_strength.den

====
